---- MODULE Spec2Model ----
(***************************************************************************)
(* A model of the SQL lexer of package gps (lex.go).                       *)
(*                                                                         *)
(* A Go string is modelled as a sequence of bytes.  An ASCII byte is the   *)
(* one-character string of that character; the two bytes of the UTF-8      *)
(* encoding of U+00E9 are written "C3" and "A9".  Offsets (start, pos) are *)
(* byte offsets counted from 0, as in the source.                          *)
(*                                                                         *)
(* The driver goroutine (transform) and the caller of Tokenize are two     *)
(* processes that meet on the channel l.tokens.                            *)
(***************************************************************************)
EXTENDS Integers, Sequences, FiniteSets, TLC

\* ------------------------------------------------------------------ bounds
\* Longest input drawn from Alphabet.
MaxLen == 3
\* How many times the caller may receive from the closed channel.
MaxClosedPulls == 2

\* ------------------------------------------------------------ token types
\* The TokenType enumeration in iota order: TokenTypeOrder[k + 1] has value k.
TokenTypeOrder ==
  << "Error", "EOF", "Star", "Sep", "Dot", "Op", "Paren", "Literal", "Number",
     "String", "DblString",
     "Select", "Distinct", "From", "Where", "Group", "Order", "By", "Having",
     "Limit", "Join", "Left", "Right", "Inner", "Outer", "On", "As", "Union",
     "All", "And", "Or", "Between", "True", "False", "Null", "Is", "Not",
     "Like", "Exists" >>

TokenType == {TokenTypeOrder[k] : k \in 1..Len(TokenTypeOrder)}

\* Mutant of ZeroToken: the zero TokenType is the second of the enumeration.
ZeroTokenEOF == [Type |-> TokenTypeOrder[2], Literal |-> <<>>]

\* The value a receive from a closed channel yields: Token{} = {0, ""}.
ZeroToken == [Type |-> TokenTypeOrder[1], Literal |-> <<>>]

Token(t, lit) == [Type |-> t, Literal |-> lit]

NoToken == [Type |-> "none", Literal |-> <<>>]

\* ------------------------------------------------------------------ runes
LowerLetters ==
  << "a", "b", "c", "d", "e", "f", "g", "h", "i", "j", "k", "l", "m",
     "n", "o", "p", "q", "r", "s", "t", "u", "v", "w", "x", "y", "z" >>

UpperLetters ==
  << "A", "B", "C", "D", "E", "F", "G", "H", "I", "J", "K", "L", "M",
     "N", "O", "P", "Q", "R", "S", "T", "U", "V", "W", "X", "Y", "Z" >>

Digits == {"0", "1", "2", "3", "4", "5", "6", "7", "8", "9"}

\* 'a' <= r && r <= 'z' || 'A' <= r && r <= 'Z'
IsLetter(r) ==
  \E k \in 1..26 : r = LowerLetters[k] \/ r = UpperLetters[k]

\* '0' <= r && r <= '9'
IsDigit(r) == r \in Digits

\* The byte 0x60 (the backquote of SQL identifiers), which the module's
\* strings cannot hold, under a name.
Backquote == "0x60"

\* The bytes that are not ASCII: a two-byte lead and a continuation byte.
LeadByte == "C3"
ContByte == "A9"
\* utf8.RuneError, and the rune U+00E9 that LeadByte ContByte encode.
RuneError == "RuneError"
RuneE9 == "U+00E9"

\* utf8.DecodeRuneInString(s[p:]) with p a 0 based byte offset: <<rune, width>>.
DecodeRuneInString(s, p) ==
  IF p >= Len(s) THEN <<RuneError, 0>>
  ELSE IF s[p + 1] = LeadByte
       THEN IF p + 1 < Len(s) /\ s[p + 2] = ContByte
            THEN <<RuneE9, 2>>
            ELSE <<RuneError, 1>>
  ELSE IF s[p + 1] = ContByte THEN <<RuneError, 1>>
  ELSE <<s[p + 1], 1>>

\* strings.ToUpper on the bytes the keyword state can hold.
ToUpperByte(b) ==
  IF \E k \in 1..26 : b = LowerLetters[k]
  THEN UpperLetters[CHOOSE k \in 1..26 : b = LowerLetters[k]]
  ELSE b

\* Mutant of ToUpper: the word is compared as written.
ToUpperUnchanged(s) == s

ToUpper(s) == [k \in 1..Len(s) |-> ToUpperByte(s[k])]

\* s[a:b] of Go, a and b 0 based byte offsets.
Slice(s, a, b) == SubSeq(s, a + 1, b)

\* ----------------------------------------------------------------- Sprintf
RECURSIVE ExtraArgs(_)
\* The tail of "%!(EXTRA string=a, string=b)" for the arguments left over.
ExtraArgs(args) ==
  IF args = <<>> THEN <<>>
  ELSE <<"s", "t", "r", "i", "n", "g", "=">> \o Head(args)
       \o (IF Len(args) > 1 THEN <<",", " ">> ELSE <<>>)
       \o ExtraArgs(Tail(args))

RECURSIVE Format(_, _, _)
\* fmt.Sprintf for a format whose only verb is %s and string arguments:
\* each %s takes the next argument, a %s with no argument left prints
\* %!s(MISSING), and arguments no verb took print as %!(EXTRA string=...).
Format(format, k, args) ==
  IF k > Len(format)
  THEN IF args = <<>> THEN <<>>
       ELSE <<"%", "!", "(", "E", "X", "T", "R", "A", " ">>
            \o ExtraArgs(args) \o <<")">>
  ELSE IF format[k] = "%" /\ k < Len(format) /\ format[k + 1] = "s"
       THEN (IF args = <<>>
             THEN <<"%", "!", "s", "(", "M", "I", "S", "S", "I", "N", "G", ")">>
             ELSE Head(args))
            \o Format(format, k + 2, IF args = <<>> THEN <<>> ELSE Tail(args))
  ELSE <<format[k]>> \o Format(format, k + 1, args)

Sprintf(format, args) == Format(format, 1, args)

\* "ERROR: %s: %s"
ErrorPrefixFormat ==
  <<"E", "R", "R", "O", "R", ":", " ", "%", "s", ":", " ", "%", "s">>

\* "unsupported op: "
UnsupportedOpFormat ==
  <<"u", "n", "s", "u", "p", "p", "o", "r", "t", "e", "d", " ", "o", "p", ":", " ">>

\* "keyword doesn't exsit: %s"
KeywordFormat ==
  <<"k", "e", "y", "w", "o", "r", "d", " ", "d", "o", "e", "s", "n", "'", "t",
    " ", "e", "x", "s", "i", "t", ":", " ", "%", "s">>

\* The literal of the token errorf sends.
ErrorLiteral(nm, format, arg) ==
  Sprintf(Sprintf(ErrorPrefixFormat, <<nm, format>>), <<arg>>)

\* ---------------------------------------------------------------- keywords
\* The cases of the switch of expectKeyword, in source order.
Keywords ==
  << << <<"S","E","L","E","C","T">>, "Select" >>,
     << <<"D","I","S","T","I","N","C","T">>, "Distinct" >>,
     << <<"F","R","O","M">>, "From" >>,
     << <<"W","H","E","R","E">>, "Where" >>,
     << <<"G","R","O","U","P">>, "Group" >>,
     << <<"O","R","D","E","R">>, "Order" >>,
     << <<"B","Y">>, "By" >>,
     << <<"H","A","V","I","N","G">>, "Having" >>,
     << <<"L","I","M","I","T">>, "Limit" >>,
     << <<"J","O","I","N">>, "Join" >>,
     << <<"L","E","F","T">>, "Left" >>,
     << <<"R","I","G","H","T">>, "Right" >>,
     << <<"I","N","N","E","R">>, "Inner" >>,
     << <<"O","U","T","E","R">>, "Outer" >>,
     << <<"O","N">>, "On" >>,
     << <<"A","S">>, "As" >>,
     << <<"U","N","I","O","N">>, "Union" >>,
     << <<"A","L","L">>, "All" >> >>

IsKeyword(word) == \E k \in 1..Len(Keywords) : Keywords[k][1] = word

\* The token type of the case that matches word (word is a keyword).
KeywordType(word) ==
  Keywords[CHOOSE k \in 1..Len(Keywords) : Keywords[k][1] = word][2]


\* ------------------------------------------------------------------ inputs
\* The bytes the bounded inputs are built from: the quote, a space, the
\* operators whose neighbours matter, a digit, the dot and a letter.
Alphabet ==
  {"'", " ", "=", "!", ">", "<", "1", ".", "o"}

BoundedInputs == UNION {[1..n -> Alphabet] : n \in 0..MaxLen}

\* The query of the README and of TestLex.
ReadmeInput ==
  <<"s", "e", "l", "e", "c", "t", " ", "*", " ", "f", "r", "o", "m", " ", Backquote, "t", "a", "b", "l", "e", Backquote, " ", "w", "h", "e", "r", "e", " ", Backquote, "a", Backquote, " ", "=", " ", "x", "y", "z">>

\* Every mix of upper and lower case of every word of the vocabulary.
CaseMixes(word) ==
  {[k \in 1..Len(word) |->
      IF k \in S
      THEN word[k]
      ELSE LowerLetters[CHOOSE j \in 1..26 : UpperLetters[j] = word[k]]]
   : S \in SUBSET (1..Len(word))}

KeywordSuffixes == {<<>>, <<" ">>, <<"1">>}

KeywordInputs ==
  UNION {{mix \o suffix : mix \in CaseMixes(Keywords[k][1]), suffix \in KeywordSuffixes}
         : k \in 1..Len(Keywords)}

\* Further queries: the remaining operators, numbers, quoted forms,
\* two-character operators, unknown words and unknown characters.
ExtraInputs ==
  {<<"+">>,
   <<"*">>,
   <<"\n">>,
   <<" ", "\n", " ", "\n">>,
   <<LeadByte, ContByte>>,
   <<ContByte>>,
   <<"'", LeadByte, ContByte, "'">>,
   <<Backquote, LeadByte, ContByte, Backquote, "*">>,
   <<",">>,
   <<",", ",">>,
   <<"o", "n", ",">>,
   <<"<", ",">>,
   <<"!", LeadByte, ContByte>>,
   <<"1", LeadByte>>,
   <<"o", "n", LeadByte, ContByte>>,
   <<"'", LeadByte>>,
   <<"O", "n">>,
   <<Backquote, Backquote>>,
   <<Backquote>>,
   <<Backquote, "o">>,
   <<Backquote, "o", Backquote>>,
   <<Backquote, "o", Backquote, "1">>,
   <<"1", Backquote, "o", Backquote>>,
   <<"o", "n", Backquote, "o", Backquote>>,
   <<Backquote, "'", Backquote>>,
   <<"'", Backquote, "'">>,
   <<Backquote, Backquote, "'", "'">>,
   <<"<", Backquote, "o", Backquote>>,
   <<Backquote, " ", Backquote>>,
   <<Backquote, "=", Backquote, "!">>,
   <<Backquote, "o", Backquote, ">">>,
   <<Backquote, Backquote, ",">>,
   <<"b", "y", " ", "x", "y", "z", " ", "*">>,
   <<"n", "o">>,
   <<"-">>,
   <<"/">>,
   <<"?">>,
   <<"(">>,
   <<"a", "?">>,
   <<"1", "2", "3">>,
   <<"1", "2", ".", "5">>,
   <<"1", "2", ".">>,
   <<"1", ".", "2", ".", "3">>,
   <<"1", "2", "a">>,
   <<"'", "a", "b", "c", "'">>,
   <<Backquote, "t", "a", "b", "l", "e", Backquote>>,
   <<"'", "a", "b">>,
   <<Backquote, "a", "b">>,
   <<"'", "'", "'", "'">>,
   <<"'", "a", Backquote, "b", "'">>,
   <<Backquote, "a", "'", "b", Backquote>>,
   <<"<", ">">>,
   <<"!", "=">>,
   <<">", "=">>,
   <<"<", "=">>,
   <<"<", " ", "1">>,
   <<">", " ", "1">>,
   <<"!", "1">>,
   <<"<", "1">>,
   <<">", "1">>,
   <<"<", "<">>,
   <<">", "<">>,
   <<"!", "!">>,
   <<"1", ",", "2">>,
   <<"a", ",", "b">>,
   <<"o", "n", ",", "a", "s">>,
   <<"a", "l", "l", "*">>,
   <<"b", "y", " ", "b", "y">>,
   <<"x", "y", "z">>,
   <<"s", "e", "l", "e", "c", "t", "1">>,
   <<"b", "y", Backquote, "a", Backquote>>}

Inputs == BoundedInputs \cup KeywordInputs \cup ExtraInputs \cup {ReadmeInput}

\* The session names of the README and of TestLex.
LexName == <<"l", "e", "x">>
TestName == <<"t", "e", "s", "t">>
Names == {LexName, TestName}

\* NewLexer(name, input): the sessions of the model.
Sessions ==
  (Names \X ExtraInputs) \cup ({LexName} \X Inputs)


\* ------------------------------------------------------------------- state
VARIABLES
  name,        \* Lexer.name
  input,       \* Lexer.input
  start,       \* Lexer.start
  pos,         \* Lexer.pos
  buf,         \* Lexer.tokens: the tokens buffered in the channel
  closed,      \* Lexer.tokens: whether close(l.tokens) has run
  state,       \* transform: the variable state, "nil" for nil
  pc,          \* where the driver goroutine stands
  r,           \* expectAny: the rune r of the switch
  offer,       \* the token of the channel send the driver is executing
  site,        \* which send that is: "emit", "errorfOp" or "errorfKeyword"
  ret,         \* the state the running state function returns after its emit
  cpc,         \* where the caller stands: "idle", "recv" or "got"
  t,           \* Tokenize: the variable t
  closedPulls, \* how many receives the closed channel has served
  published,   \* history: every send the driver has started, in order
  sent,        \* history: how many sends have completed
  received,    \* history: every token the caller received from the driver
  returns      \* history: every result Tokenize has returned

lexer == <<name, input, start, pos>>
channel == <<buf, closed>>
driver == <<state, pc, r, offer, site, ret>>
caller == <<cpc, t, closedPulls>>
history == <<published, sent, received, returns>>
vars == <<lexer, channel, driver, caller, history>>

\* Mutant of ChanCap: make(chan Token, 1), a channel with a buffer.
ChanCapBuffered == 0 + 1

\* make(chan Token): the capacity of l.tokens.
ChanCap == 0

\* NewLexer: the fields of the new Lexer, and the goroutine about to run
\* transform with state := expectAny.
Init ==
  /\ \E session \in Sessions :
       /\ name = session[1]
       /\ input = session[2]
  /\ start = 0
  /\ pos = 0
  /\ buf = <<>>
  /\ closed = FALSE
  /\ state = "expectAny"
  /\ pc = "loop"
  /\ r = RuneError
  /\ offer = NoToken
  /\ site = "none"
  /\ ret = "nil"
  /\ cpc = "idle"
  /\ t = NoToken
  /\ closedPulls = 0
  /\ published = <<>>
  /\ sent = 0
  /\ received = <<>>
  /\ returns = <<>>

\* ------------------------------------------------------- cursor primitives
\* l.cache()
cache == Slice(input, start, pos)

\* l.peek()
peek == DecodeRuneInString(input, pos)[1]

\* l.pos after a next() that adds one byte whatever is left of the input.
PosAfterNextUnchecked == pos + 1

\* l.pos after l.next()
PosAfterNext == pos + DecodeRuneInString(input, pos)[2]

\* The driver starts the send l.tokens <- tok at send site s with the cursor
\* at p; nxt is the state the state function returns once the send is over.
BeginSend(tok, s, nxt, p) ==
  /\ offer' = tok
  /\ site' = s
  /\ ret' = nxt
  /\ pc' = "send"
  /\ published' = Append(published,
                         [Type |-> tok.Type, Literal |-> tok.Literal,
                          site |-> s, from |-> start, to |-> p])

\* l.emit(typ) up to its send; nxt as in BeginSend.
emit(typ, nxt) == BeginSend(Token(typ, cache), "emit", nxt, pos)

\* l.errorf(format, l.cache()) up to its send, called from call site s.
errorf(format, s) ==
  BeginSend(Token("Error", ErrorLiteral(name, format, cache)), s, "nil", pos)

\* A step of the driver that sends nothing and only moves to pc p.
Goto(p) ==
  /\ pc' = p
  /\ UNCHANGED <<offer, site, ret, published>>

DriverFrame == UNCHANGED <<name, input, channel, caller, sent, received, returns>>


\* ------------------------------------------------------------------ driver
\* transform: state = state(l) with state = expectAny, lines 182 to 187:
\* at the end of the input emit(EOF) and return nil, else r := l.next().
ExpectAny ==
  /\ pc = "loop"
  /\ state = "expectAny"
  /\ IF pos >= Len(input)
     THEN /\ emit("EOF", "nil")
          /\ UNCHANGED <<start, pos, r, state>>
     ELSE /\ r' = DecodeRuneInString(input, pos)[1]
          /\ pos' = PosAfterNext
          /\ Goto("switch")
          /\ UNCHANGED <<start, state>>
  /\ DriverFrame

\* A case of the switch that returns next without sending.
Return(next) ==
  /\ state' = next
  /\ Goto("loop")

\* case r == '\'': return expectString
SwitchQuote ==
  /\ pc = "switch"
  /\ r = "'"
  /\ Return("expectString")
  /\ UNCHANGED <<start, pos, r>>
  /\ DriverFrame

\* case r == the backquote: return expectLiteral
SwitchBackquote ==
  /\ pc = "switch"
  /\ r = Backquote
  /\ Return("expectLiteral")
  /\ UNCHANGED <<start, pos, r>>
  /\ DriverFrame

\* Mutant of SwitchSpace: no case for white space, which falls to default.
SwitchSpaceDefault ==
  /\ pc = "switch"
  /\ r = " " \/ r = "\n"
  /\ Return("nil")
  /\ UNCHANGED <<start, pos, r>>
  /\ DriverFrame

\* case r == ' ' || r == '\n': l.ignore(); return expectAny
SwitchSpace ==
  /\ pc = "switch"
  /\ r = " " \/ r = "\n"
  /\ start' = pos
  /\ Return("expectAny")
  /\ UNCHANGED <<pos, r>>
  /\ DriverFrame

\* Mutant of SwitchStar: the star is skipped the way a space is.
SwitchStarIgnored ==
  /\ pc = "switch"
  /\ r = "*"
  /\ start' = pos
  /\ Return("expectAny")
  /\ UNCHANGED <<pos, r>>
  /\ DriverFrame

\* case r == '*': l.emit(Star); return expectAny
SwitchStar ==
  /\ pc = "switch"
  /\ r = "*"
  /\ emit("Star", "expectAny")
  /\ UNCHANGED <<start, pos, r, state>>
  /\ DriverFrame

\* case r == ',': l.emit(Sep); return expectAny(l).  The nested call runs
\* expectAny on the same Lexer and its result is returned to transform, which
\* is what transform does with a returned expectAny.
SwitchSep ==
  /\ pc = "switch"
  /\ r = ","
  /\ emit("Sep", "expectAny")
  /\ UNCHANGED <<start, pos, r, state>>
  /\ DriverFrame

\* case r == '=' || r == '+' || r == '-' || r == '/': l.emit(Op)
SwitchOp ==
  /\ pc = "switch"
  /\ r \in {"=", "+", "-", "/"}
  /\ emit("Op", "expectAny")
  /\ UNCHANGED <<start, pos, r, state>>
  /\ DriverFrame

\* Mutant of Unsupported: '<' accepts '=' and space only, as '>' does.
UnsupportedNoDiamond(op, nxt) ==
  CASE op = "!" -> nxt # "="
    [] op = ">" -> nxt # "=" /\ nxt # " "
    [] op = "<" -> nxt # "=" /\ nxt # " "

\* The condition under which the case of operator rune op calls errorf.
Unsupported(op, nxt) ==
  CASE op = "!" -> nxt # "="
    [] op = ">" -> nxt # "=" /\ nxt # " "
    [] op = "<" -> nxt # "=" /\ nxt # " " /\ nxt # ">"

\* case r == '!', r == '>', r == '<': errorf when the peeked rune is not an
\* accepted one, then (here or after the errorf) l.emit(Op).
SwitchCheckedOp ==
  /\ pc = "switch"
  /\ r \in {"!", ">", "<"}
  /\ IF Unsupported(r, peek)
     THEN errorf(UnsupportedOpFormat, "errorfOp")
     ELSE emit("Op", "expectAny")
  /\ UNCHANGED <<start, pos, r, state>>
  /\ DriverFrame

\* case '0' <= r && r <= '9': l.backup(); return expectNumber
SwitchDigit ==
  /\ pc = "switch"
  /\ IsDigit(r)
  /\ pos' = start
  /\ Return("expectNumber")
  /\ UNCHANGED <<start, r>>
  /\ DriverFrame

\* case letter: l.backup(); return expectKeyword
SwitchLetter ==
  /\ pc = "switch"
  /\ IsLetter(r)
  /\ pos' = start
  /\ Return("expectKeyword")
  /\ UNCHANGED <<start, r>>
  /\ DriverFrame

\* Mutant of SwitchDefault: the code point is reported the way an unknown
\* word is.
SwitchDefaultReports ==
  /\ pc = "switch"
  /\ r \notin {"'", Backquote, " ", "\n", "*", ",", "=", "+", "-", "/", "!", ">", "<"}
  /\ ~IsDigit(r)
  /\ ~IsLetter(r)
  /\ errorf(KeywordFormat, "errorfKeyword")
  /\ UNCHANGED <<start, pos, r, state>>
  /\ DriverFrame

\* default: return nil
SwitchDefault ==
  /\ pc = "switch"
  /\ r \notin {"'", Backquote, " ", "\n", "*", ",", "=", "+", "-", "/", "!", ">", "<"}
  /\ ~IsDigit(r)
  /\ ~IsLetter(r)
  /\ Return("nil")
  /\ UNCHANGED <<start, pos, r>>
  /\ DriverFrame

\* Mutant of ExpectKeyword: a word outside the vocabulary is emitted as an
\* identifier token and the scan goes on.
ExpectKeywordIdentifier ==
  /\ \/ pc = "loop" /\ state = "expectKeyword"
     \/ pc = "keyword"
  /\ IF IsLetter(peek)
     THEN /\ pos' = PosAfterNext
          /\ Goto("keyword")
     ELSE /\ IF IsKeyword(ToUpper(cache))
             THEN emit(KeywordType(ToUpper(cache)), "expectAny")
             ELSE emit("Literal", "expectAny")
          /\ UNCHANGED pos
  /\ UNCHANGED <<start, r, state>>
  /\ DriverFrame

\* expectKeyword: one turn of the for loop (l.next() while the peeked rune is
\* a letter), and after the loop the switch on strings.ToUpper(l.cache()).
ExpectKeyword ==
  /\ \/ pc = "loop" /\ state = "expectKeyword"
     \/ pc = "keyword"
  /\ IF IsLetter(peek)
     THEN /\ pos' = PosAfterNext
          /\ Goto("keyword")
     ELSE /\ IF IsKeyword(ToUpper(cache))
             THEN emit(KeywordType(ToUpper(cache)), "expectAny")
             ELSE errorf(KeywordFormat, "errorfKeyword")
          /\ UNCHANGED pos
  /\ UNCHANGED <<start, r, state>>
  /\ DriverFrame

\* expectString: l.next() == '\'' ? emit(String), return expectAny
\*                               : return expectString
ExpectString ==
  /\ pc = "loop"
  /\ state = "expectString"
  /\ pos' = PosAfterNext
  /\ IF DecodeRuneInString(input, pos)[1] = "'"
     THEN BeginSend(Token("String", Slice(input, start, PosAfterNext)),
                    "emit", "expectAny", PosAfterNext)
     ELSE Goto("loop")
  /\ UNCHANGED <<start, r, state>>
  /\ DriverFrame

\* The identifier t of line 293, which no declaration of the package binds:
\* whatever it is bound to so that the package builds is a TokenType.
UnboundT == TokenType

\* expectLiteral: as expectString with the backquote, but the token is sent
\* as Token{t, l.cache()} on l.tokens directly.
ExpectLiteral ==
  /\ pc = "loop"
  /\ state = "expectLiteral"
  /\ pos' = PosAfterNext
  /\ IF DecodeRuneInString(input, pos)[1] = Backquote
     THEN \E typ \in UnboundT :
            BeginSend(Token(typ, Slice(input, start, PosAfterNext)),
                      "literal", "expectAny", PosAfterNext)
     ELSE Goto("loop")
  /\ UNCHANGED <<start, r, state>>
  /\ DriverFrame

\* expectNumber, first loop: l.next() while the peeked rune is a digit.
ExpectNumber ==
  /\ \/ pc = "loop" /\ state = "expectNumber"
     \/ pc = "number"
  /\ IF IsDigit(peek)
     THEN pos' = PosAfterNext /\ Goto("number")
     ELSE pos' = pos /\ Goto("numberDot")
  /\ UNCHANGED <<start, r, state>>
  /\ DriverFrame

\* Mutant of ExpectNumberDot: the dot is never consumed.
ExpectNumberNoDot ==
  /\ pc = "numberDot"
  /\ pos' = pos
  /\ Goto("numberFraction")
  /\ UNCHANGED <<start, r, state>>
  /\ DriverFrame

\* expectNumber: if l.peek() == '.' { l.next() }
ExpectNumberDot ==
  /\ pc = "numberDot"
  /\ pos' = IF peek = "." THEN PosAfterNext ELSE pos
  /\ Goto("numberFraction")
  /\ UNCHANGED <<start, r, state>>
  /\ DriverFrame

\* expectNumber, second loop, then l.emit(Number); return expectAny
ExpectNumberFraction ==
  /\ pc = "numberFraction"
  /\ IF IsDigit(peek)
     THEN pos' = PosAfterNext /\ Goto("numberFraction")
     ELSE pos' = pos /\ emit("Number", "expectAny")
  /\ UNCHANGED <<start, r, state>>
  /\ DriverFrame

\* Mutant of EmitReturn: the send is not followed by l.start = l.pos.
EmitReturnKeepsStart ==
  /\ pc = "sent"
  /\ site \in {"emit", "literal"}
  /\ state' = ret
  /\ pc' = "loop"
  /\ offer' = NoToken
  /\ UNCHANGED <<start, pos, r, site, ret, published>>
  /\ DriverFrame

\* The send of emit (or of line 293) is over: l.start = l.pos, and the state
\* function returns ret to transform.
EmitReturn ==
  /\ pc = "sent"
  /\ site \in {"emit", "literal"}
  /\ start' = pos
  /\ state' = ret
  /\ pc' = "loop"
  /\ offer' = NoToken
  /\ UNCHANGED <<pos, r, site, ret, published>>
  /\ DriverFrame

\* Mutant of ErrorfReturnOp: the operator case returns nil after errorf, as
\* expectKeyword does.
ErrorfReturnOpStops ==
  /\ pc = "sent"
  /\ site = "errorfOp"
  /\ state' = "nil"
  /\ pc' = "loop"
  /\ offer' = NoToken
  /\ UNCHANGED <<start, pos, r, site, ret, published>>
  /\ DriverFrame

\* The send of errorf is over in an operator case: l.emit(Op) follows.
ErrorfReturnOp ==
  /\ pc = "sent"
  /\ site = "errorfOp"
  /\ emit("Op", "expectAny")
  /\ UNCHANGED <<start, pos, r, state>>
  /\ DriverFrame

\* Mutant of ErrorfReturnKeyword: return expectAny, as the operator cases do.
ErrorfReturnKeywordResumes ==
  /\ pc = "sent"
  /\ site = "errorfKeyword"
  /\ state' = "expectAny"
  /\ pc' = "loop"
  /\ offer' = NoToken
  /\ UNCHANGED <<start, pos, r, site, ret, published>>
  /\ DriverFrame

\* The send of errorf is over in expectKeyword: return nil.
ErrorfReturnKeyword ==
  /\ pc = "sent"
  /\ site = "errorfKeyword"
  /\ state' = "nil"
  /\ pc' = "loop"
  /\ offer' = NoToken
  /\ UNCHANGED <<start, pos, r, site, ret, published>>
  /\ DriverFrame

\* transform: state == nil ends the loop; close(l.tokens).
Close ==
  /\ pc = "loop"
  /\ state = "nil"
  /\ closed' = TRUE
  /\ pc' = "done"
  /\ UNCHANGED <<lexer, buf, state, r, offer, site, ret, caller, history>>

\* ----------------------------------------------------------------- channel
\* The send l.tokens <- offer completes: it hands the token to the caller
\* waiting in the receive, or puts it in the buffer when there is room.
ChanSend ==
  /\ pc = "send"
  /\ IF cpc = "recv" /\ buf = <<>>
     THEN /\ t' = offer
          /\ cpc' = "got"
          /\ received' = Append(received, offer)
          /\ UNCHANGED buf
     ELSE /\ Len(buf) < ChanCap
          /\ buf' = Append(buf, offer)
          /\ UNCHANGED <<t, cpc, received>>
  /\ pc' = "sent"
  /\ sent' = sent + 1
  /\ UNCHANGED <<lexer, closed, state, r, offer, site, ret, closedPulls,
                 published, returns>>

\* The receive <-l.tokens completes without a sender: it takes the head of
\* the buffer, or the zero Token when the channel is closed and empty.
ChanRecv ==
  /\ cpc = "recv"
  /\ IF buf # <<>>
     THEN /\ t' = Head(buf)
          /\ buf' = Tail(buf)
          /\ received' = Append(received, Head(buf))
          /\ UNCHANGED closedPulls
     ELSE /\ closed
          /\ t' = ZeroToken
          /\ closedPulls' = closedPulls + 1
          /\ UNCHANGED <<buf, received>>
  /\ cpc' = "got"
  /\ UNCHANGED <<lexer, closed, driver, published, sent, returns>>

\* ------------------------------------------------------------------ caller
\* Mutant of TokenizeError: the EOF branch is missing.
TokenizeErrorNoEOF(tok) ==
  IF tok.Type = "Error" THEN "Error" ELSE "nil"

\* The error Tokenize returns with token tok.
TokenizeError(tok) ==
  IF tok.Type = "Error" THEN "Error"
  ELSE IF tok.Type = "EOF" THEN "EOF"
  ELSE "nil"

\* The caller calls Tokenize and waits in t := <-l.tokens.
Tokenize ==
  /\ cpc = "idle"
  /\ closedPulls < MaxClosedPulls
  /\ cpc' = "recv"
  /\ UNCHANGED <<lexer, channel, driver, t, closedPulls, history>>

\* Tokenize returns (t, error).
TokenizeReturn ==
  /\ cpc = "got"
  /\ cpc' = "idle"
  /\ returns' = Append(returns, [tok |-> t, err |-> TokenizeError(t)])
  /\ UNCHANGED <<lexer, channel, driver, t, closedPulls, published, sent, received>>

\* ----------------------------------------------------------- specification
Next ==
  \/ ExpectAny
  \/ SwitchQuote
  \/ SwitchBackquote
  \/ SwitchSpace
  \/ SwitchStar
  \/ SwitchSep
  \/ SwitchOp
  \/ SwitchCheckedOp
  \/ SwitchDigit
  \/ SwitchLetter
  \/ SwitchDefault
  \/ ExpectKeyword
  \/ ExpectString
  \/ ExpectLiteral
  \/ ExpectNumber
  \/ ExpectNumberDot
  \/ ExpectNumberFraction
  \/ EmitReturn
  \/ ErrorfReturnOp
  \/ ErrorfReturnKeyword
  \/ Close
  \/ ChanSend
  \/ ChanRecv
  \/ Tokenize
  \/ TokenizeReturn

Spec == Init /\ [][Next]_vars

TypeOK ==
  /\ start \in 0..Len(input)
  /\ pos \in 0..Len(input)
  /\ pc \in {"loop", "switch", "keyword", "number", "numberDot",
             "numberFraction", "send", "sent", "done"}
  /\ state \in {"expectAny", "expectString", "expectLiteral", "expectNumber",
                "expectKeyword", "nil"}
  /\ cpc \in {"idle", "recv", "got"}


\* ================================================================== claims
\* The ASCII letters, and each with its upper case form (stated on the
\* tables, apart from the operators of the model).
LetterSet ==
  {LowerLetters[j] : j \in 1..26} \cup {UpperLetters[j] : j \in 1..26}

UpperOf ==
  [b \in LetterSet |->
     IF \E j \in 1..26 : b = UpperLetters[j]
     THEN b
     ELSE UpperLetters[CHOOSE j \in 1..26 : b = LowerLetters[j]]]

\* The bytes of w are all ASCII letters.
AllLetters(w) == \A k \in 1..Len(w) : w[k] \in LetterSet

\* The token of a history entry of published.
TokenOf(e) == [Type |-> e.Type, Literal |-> e.Literal]

\* The driver has nothing left to do but close the channel, or has closed it.
DriverEnding ==
  \/ pc = "sent" /\ site = "errorfKeyword"
  \/ pc = "sent" /\ site = "emit" /\ ret = "nil"
  \/ pc = "loop" /\ state = "nil"
  \/ pc = "done"

\* ---- C1
\* "ERROR: " name ": keyword doesn't exsit: xyz"
ReadmeErrorLiteral ==
  <<"E", "R", "R", "O", "R", ":", " ">> \o name \o
  <<":", " ", "k", "e", "y", "w", "o", "r", "d", " ", "d", "o", "e", "s", "n", "'", "t", " ", "e", "x", "s", "i", "t", ":", " ", "x", "y", "z">>

\* The tokens the README and the claim list for ReadmeInput.
ReadmeExpected ==
  << Token("Select", <<"s", "e", "l", "e", "c", "t">>),
     Token("Star", <<"*">>),
     Token("From", <<"f", "r", "o", "m">>),
     Token("Literal", <<Backquote, "t", "a", "b", "l", "e", Backquote>>),
     Token("Where", <<"w", "h", "e", "r", "e">>),
     Token("Literal", <<Backquote, "a", Backquote>>),
     Token("Op", <<"=">>),
     Token("Error", ReadmeErrorLiteral) >>

\* C1: for the README query, the caller that calls Tokenize until it returns
\* a non-nil error receives Select, Star, From, Literal, Where, Literal, Op
\* and the Error token for xyz, in this order, the first seven with a nil
\* error; the driver starts no send after that Error token and goes on to
\* close the channel.
C1_ReadmeSequence ==
  input = ReadmeInput =>
    /\ Len(published) <= Len(ReadmeExpected)
    /\ \A k \in 1..Len(published) : TokenOf(published[k]) = ReadmeExpected[k]
    /\ \A k \in 1..Len(returns) :
         k <= Len(ReadmeExpected) =>
           /\ returns[k].tok = ReadmeExpected[k]
           /\ returns[k].err = "nil" <=> k < Len(ReadmeExpected)
    /\ Len(received) = Len(ReadmeExpected) => DriverEnding

\* ---- C2
\* C2: every token the driver delivered comes back from Tokenize unchanged,
\* with a nil error exactly when its type is neither Error nor EOF.
C2_TokenizeOutcome ==
  \A k \in 1..Len(returns) :
    k <= Len(received) =>
      /\ returns[k].tok = received[k]
      /\ returns[k].err = "nil" <=> received[k].Type \notin {"Error", "EOF"}
      /\ received[k].Type = "EOF" => returns[k].err # "nil"
      /\ received[k].Type = "Error" => returns[k].err # "nil"

\* An Error token, a plain token and the EOF token were delivered and returned.
C2_Witness ==
  /\ Len(received) = 3
  /\ Len(returns) = 3
  /\ received[1].Type = "Error"
  /\ received[2].Type = "Op"
  /\ received[3].Type = "EOF"


\* ---- C3
\* C3 as stated: an Error or EOF token is the last token the driver sends.
C3_ErrorOrEOFIsLast ==
  \A k \in 1..Len(published) :
    published[k].Type \in {"Error", "EOF"} => k = Len(published)

\* The driver is in, or past, one of its terminal conditions: the EOF token
\* of dispatch at the end of the input, the Error token of an unknown word,
\* or a state function that returned nil (which includes the silent stop).
Terminal ==
  \/ pc \in {"send", "sent"} /\ site = "emit" /\ offer.Type = "EOF"
  \/ pc \in {"send", "sent"} /\ site = "errorfKeyword"
  \/ state = "nil"
  \/ pc = "done"

\* C3 (amended): once the driver has sent the EOF token of the end of the
\* input or the Error token of an unknown word, or has stopped silently, it
\* stays terminal and starts no further send.
C3_TerminalIsFinal ==
  [][Terminal => Terminal' /\ published' = published]_vars

\* An unknown word ended the session before the end of the input, and the
\* caller kept calling Tokenize.
C3_Witness ==
  /\ pc = "done"
  /\ Len(published) >= 2
  /\ published[Len(published)].site = "errorfKeyword"
  /\ pos < Len(input)
  /\ closedPulls >= 1

\* ---- C4
\* C4: the channel is a rendezvous.  No send completes without a receive, at
\* most one published token is not yet received, the tokens received are the
\* tokens published in the same order, and while a published token is not
\* received the driver stands in its send with the cursor where it was.
C4_Rendezvous ==
  /\ buf = <<>>
  /\ sent <= Len(received)
  /\ Len(received) <= Len(published)
  /\ Len(published) <= Len(received) + 1
  /\ \A k \in 1..Len(received) : received[k] = TokenOf(published[k])
  /\ Len(published) > Len(received) =>
       /\ pc = "send"
       /\ offer = TokenOf(published[Len(published)])
       /\ start = published[Len(published)].from
       /\ pos = published[Len(published)].to

\* The driver waits in its third send while the caller is not in Tokenize.
C4_Witness ==
  /\ pc = "send"
  /\ cpc = "idle"
  /\ Len(published) = 3
  /\ Len(received) = 2
  /\ Len(returns) = 2

\* ---- C5
\* Every byte of the input is a space or a newline.
OnlySpaces == \A k \in 1..Len(input) : input[k] = " " \/ input[k] = "\n"

\* C5: for an input of spaces and newlines only (the empty input too) the
\* driver sends one token and no more, of type EOF, and the first Tokenize
\* returns it with a non-nil error.
C5_BlankInput ==
  OnlySpaces =>
    /\ Len(published) <= 1
    /\ \A k \in 1..Len(published) : published[k].Type = "EOF"
    /\ state = "nil" \/ pc = "done" => Len(published) = 1
    /\ Len(returns) >= 1 =>
         /\ returns[1].tok.Type = "EOF"
         /\ returns[1].err # "nil"

\* A blank input of several bytes was scanned to its end and its EOF returned.
C5_Witness ==
  /\ OnlySpaces
  /\ Len(input) >= 2
  /\ pc = "done"
  /\ Len(returns) = 1
  /\ returns[1].tok.Type = "EOF"


\* ---- C6
\* The vocabulary of the claims: each word with its token type.
Vocabulary ==
  << << <<"S","E","L","E","C","T">>, "Select" >>,
     << <<"D","I","S","T","I","N","C","T">>, "Distinct" >>,
     << <<"F","R","O","M">>, "From" >>,
     << <<"W","H","E","R","E">>, "Where" >>,
     << <<"G","R","O","U","P">>, "Group" >>,
     << <<"O","R","D","E","R">>, "Order" >>,
     << <<"B","Y">>, "By" >>,
     << <<"H","A","V","I","N","G">>, "Having" >>,
     << <<"L","I","M","I","T">>, "Limit" >>,
     << <<"J","O","I","N">>, "Join" >>,
     << <<"L","E","F","T">>, "Left" >>,
     << <<"R","I","G","H","T">>, "Right" >>,
     << <<"I","N","N","E","R">>, "Inner" >>,
     << <<"O","U","T","E","R">>, "Outer" >>,
     << <<"O","N">>, "On" >>,
     << <<"A","S">>, "As" >>,
     << <<"U","N","I","O","N">>, "Union" >>,
     << <<"A","L","L">>, "All" >> >>

VocabularyWords == {Vocabulary[v][1] : v \in 1..Len(Vocabulary)}

\* The token type of each word of the vocabulary.
VocabularyType ==
  [word \in VocabularyWords |->
     Vocabulary[CHOOSE v \in 1..Len(Vocabulary) : Vocabulary[v][1] = word][2]]

\* A run of letters w with every letter in upper case.
Fold(w) == [k \in 1..Len(w) |-> UpperOf[w[k]]]

\* w spells a word of the vocabulary in some mix of upper and lower case.
InVocabulary(w) == AllLetters(w) /\ Fold(w) \in VocabularyWords

\* The byte of the input at 0 based offset p, "none" at the end of the input.
ByteAt(p) == IF p < Len(input) THEN input[p + 1] ELSE "none"

\* The text of the input a history entry spans.
SpanOf(e) == Slice(input, e.from, e.to)

\* The history entry is a send of the keyword state: a run of letters.
IsWordEntry(e) ==
  /\ e.site \in {"emit", "errorfKeyword"}
  /\ SpanOf(e) # <<>>
  /\ AllLetters(SpanOf(e))

\* No letter next to the span on either side.
MaximalRun(e) ==
  /\ ~AllLetters(<<ByteAt(e.to)>>)
  /\ e.from = 0 \/ ~AllLetters(<<input[e.from]>>)

RECURSIVE LetterRunEnd(_, _)
\* The offset where the run of letters of s that starts at offset p ends.
LetterRunEnd(s, p) ==
  IF p < Len(s) /\ AllLetters(<<s[p + 1]>>) THEN LetterRunEnd(s, p + 1) ELSE p

\* C6: a maximal run of letters that spells a word of the vocabulary in any
\* mix of case is sent as one token of that word's type whose literal is the
\* run as written, after which the state function returns expectAny; in
\* particular an input that begins with such a run begins with that token.
C6_KeywordCase ==
  /\ \A k \in 1..Len(published) :
       IsWordEntry(published[k]) =>
         /\ MaximalRun(published[k])
         /\ InVocabulary(SpanOf(published[k])) =>
              /\ published[k].site = "emit"
              /\ published[k].Type = VocabularyType[Fold(SpanOf(published[k]))]
              /\ published[k].Literal = SpanOf(published[k])
              /\ k = Len(published) /\ pc \in {"send", "sent"} =>
                   ret = "expectAny"
  /\ InVocabulary(Slice(input, 0, LetterRunEnd(input, 0))) =>
       /\ published = <<>> => state # "nil" /\ pc # "done"
       /\ published # <<>> =>
            /\ IsWordEntry(published[1])
            /\ published[1].from = 0
            /\ published[1].to = LetterRunEnd(input, 0)

\* A word in mixed case was sent as its keyword and the scan went on.
C6_Witness ==
  /\ Len(published) >= 2
  /\ TokenOf(published[1]) =
       Token("Distinct", <<"D", "i", "S", "t", "I", "n", "C", "t">>)
  /\ published[2].Type = "Number"

\* ---- C7
\* s ends with w.
EndsWith(s, w) ==
  /\ Len(s) >= Len(w)
  /\ SubSeq(s, Len(s) - Len(w) + 1, Len(s)) = w

\* C7: a maximal run of letters that spells no word of the vocabulary is
\* sent as one Error token whose diagnostic ends with the run; it is the last
\* send of the session, no token has the run as literal, the cursor stays on
\* the run, and the driver goes on to close the channel; in particular an
\* input that begins with such a run has this Error token as its only token.
C7_UnknownWordIsFatal ==
  /\ \A k \in 1..Len(published) :
       IsWordEntry(published[k]) /\ ~InVocabulary(SpanOf(published[k])) =>
         /\ MaximalRun(published[k])
         /\ published[k].Type = "Error"
         /\ published[k].site = "errorfKeyword"
         /\ EndsWith(published[k].Literal, SpanOf(published[k]))
         /\ k = Len(published)
         /\ \A j \in 1..(k - 1) : published[j].to <= published[k].from
         /\ start = published[k].from
         /\ pos = published[k].to
         /\ pc = "send" \/ DriverEnding
  /\ pc = "done" => closed
  /\ LetterRunEnd(input, 0) > 0
       /\ ~InVocabulary(Slice(input, 0, LetterRunEnd(input, 0))) =>
       /\ published = <<>> => state # "nil" /\ pc # "done"
       /\ published # <<>> =>
            /\ IsWordEntry(published[1])
            /\ published[1].from = 0
            /\ published[1].to = LetterRunEnd(input, 0)

\* After a keyword, an unknown word was reported, returned to the caller as
\* the last token, and the channel closed with input left unscanned.
C7_Witness ==
  /\ closed
  /\ Len(published) = 2
  /\ Len(returns) = 2
  /\ published[1].Type = "By"
  /\ published[2].site = "errorfKeyword"
  /\ returns[2].err = "Error"
  /\ pos < Len(input)

\* ---- C8
RECURSIVE DigitRunEnd(_, _)
\* The offset where the run of digits of s that starts at offset p ends.
DigitRunEnd(s, p) ==
  IF p < Len(s) /\ s[p + 1] \in {"0", "1", "2", "3", "4", "5", "6", "7", "8", "9"}
  THEN DigitRunEnd(s, p + 1)
  ELSE p

\* Where a number that starts at offset p ends: digits, one dot if it is
\* the next byte, digits.
NumberEnd(s, p) ==
  LET a == DigitRunEnd(s, p)
      b == IF a < Len(s) /\ s[a + 1] = "." THEN a + 1 ELSE a
  IN  DigitRunEnd(s, b)

\* Only spaces and newlines between offsets a and b of the input.
BlankBetween(a, b) ==
  \A k \in (a + 1)..b : input[k] = " " \/ input[k] = "\n"

\* C8: a token sent by emit on a span that starts with a digit is a Number
\* whose span is the digits, one dot if it follows, and the digits after
\* it; emit sends Number for no other span; the state function then returns
\* expectAny with the cursor at the end of the span, and the next token
\* starts there or after white space; "123", "12.5" and "12." are each one
\* Number token.
C8_Number ==
  /\ \A k \in 1..Len(published) :
       /\ published[k].site = "emit" /\ published[k].Type = "Number" =>
            DigitRunEnd(input, published[k].from) > published[k].from
       /\ published[k].site = "emit"
            /\ DigitRunEnd(input, published[k].from) > published[k].from =>
            /\ published[k].Type = "Number"
            /\ published[k].to = NumberEnd(input, published[k].from)
            /\ published[k].Literal = SpanOf(published[k])
            /\ k = Len(published) /\ pc \in {"send", "sent"} =>
                 ret = "expectAny" /\ pos = published[k].to
            /\ k < Len(published) =>
                 /\ published[k + 1].from >= published[k].to
                 /\ BlankBetween(published[k].to, published[k + 1].from)
  /\ DigitRunEnd(input, 0) > 0 =>
       /\ published = <<>> => state # "nil" /\ pc # "done"
       /\ published # <<>> => published[1].site = "emit" /\ published[1].from = 0
  /\ \A lit \in {<<"1", "2", "3">>, <<"1", "2", ".", "5">>, <<"1", "2", ".">>} :
       input = lit /\ published # <<>> =>
         TokenOf(published[1]) = Token("Number", lit)

\* The number with a trailing dot was sent as one token, then EOF.
C8_Witness ==
  /\ Len(published) = 2
  /\ TokenOf(published[1]) = Token("Number", <<"1", "2", ".">>)
  /\ published[2].Type = "EOF"
  /\ Len(received) = 2

\* ---- C9
\* The span starts and ends with delimiter q and has no q in between.
Quoted(e, q) ==
  /\ e.to >= e.from + 2
  /\ input[e.from + 1] = q
  /\ input[e.to] = q
  /\ \A k \in (e.from + 2)..(e.to - 1) : input[k] # q

\* C9: a token whose span starts with a single quote is a String, and a
\* token whose span starts with a backquote is a Literal; in both cases the
\* literal is the span, from the opening delimiter to the next one, and the
\* state function then returns expectAny.
C9_QuotedForms ==
  \A k \in 1..Len(published) :
    /\ published[k].site \in {"emit", "literal"} /\ ByteAt(published[k].from) = "'" =>
         /\ published[k].Type = "String"
         /\ Quoted(published[k], "'")
         /\ published[k].Literal = SpanOf(published[k])
         /\ k = Len(published) /\ pc \in {"send", "sent"} => ret = "expectAny"
    /\ published[k].site \in {"emit", "literal"}
         /\ ByteAt(published[k].from) = Backquote =>
         /\ published[k].Type = "Literal"
         /\ Quoted(published[k], Backquote)
         /\ published[k].Literal = SpanOf(published[k])
         /\ k = Len(published) /\ pc \in {"send", "sent"} => ret = "expectAny"

\* ---- C10
\* The bytes that may follow operator byte op without a diagnostic.
Accepted(op) ==
  CASE op = "!" -> {"="}
    [] op = ">" -> {"=", " "}
    [] op = "<" -> {"=", " ", ">"}

CheckedOps == {"!", ">", "<"}

\* C10: the Error token of an operator case is sent for a one byte span
\* '!', '>' or '<' that an accepted byte does not follow (the end of the
\* input is no accepted byte), once, and the next send is the Op token of
\* the same span; the Op token of such a span is preceded by that Error
\* token exactly when no accepted byte follows, and after it the state
\* function returns expectAny.
C10_UnsupportedOp ==
  /\ \A k \in 1..Len(published) :
       /\ published[k].site = "errorfOp" =>
            /\ published[k].Type = "Error"
            /\ published[k].to = published[k].from + 1
            /\ ByteAt(published[k].from) \in CheckedOps
            /\ ByteAt(published[k].to) \notin Accepted(ByteAt(published[k].from))
            /\ k > 1 => published[k - 1].to <= published[k].from
            /\ k = Len(published) => pc \in {"send", "sent"}
            /\ k < Len(published) =>
                 /\ published[k + 1].site = "emit"
                 /\ published[k + 1].Type = "Op"
                 /\ published[k + 1].from = published[k].from
                 /\ published[k + 1].to = published[k].to
                 /\ published[k + 1].Literal = SpanOf(published[k])
       /\ published[k].site = "emit" /\ ByteAt(published[k].from) \in CheckedOps =>
            /\ published[k].Type = "Op"
            /\ published[k].to = published[k].from + 1
            /\ published[k].Literal = SpanOf(published[k])
            /\ ByteAt(published[k].to) \notin Accepted(ByteAt(published[k].from))
                 <=> /\ k > 1
                     /\ published[k - 1].site = "errorfOp"
                     /\ published[k - 1].from = published[k].from
            /\ k = Len(published) /\ pc \in {"send", "sent"} => ret = "expectAny"
  /\ ByteAt(0) \in CheckedOps =>
       /\ published = <<>> => state # "nil" /\ pc # "done"
       /\ published # <<>> =>
            /\ published[1].from = 0
            /\ published[1].site \in {"emit", "errorfOp"}

\* '>' before a digit: the Error token, the Op token and then the number.
C10_Witness ==
  /\ Len(published) >= 3
  /\ published[1].site = "errorfOp"
  /\ TokenOf(published[2]) = Token("Op", <<">">>)
  /\ published[3].Type = "Number"
  /\ Len(received) >= 3


\* ---- C11
\* The steps of the driver goroutine that need no caller.
DriverNext ==
  \/ ExpectAny
  \/ SwitchQuote
  \/ SwitchBackquote
  \/ SwitchSpace
  \/ SwitchStar
  \/ SwitchSep
  \/ SwitchOp
  \/ SwitchCheckedOp
  \/ SwitchDigit
  \/ SwitchLetter
  \/ SwitchDefault
  \/ ExpectKeyword
  \/ ExpectString
  \/ ExpectLiteral
  \/ ExpectNumber
  \/ ExpectNumberDot
  \/ ExpectNumberFraction
  \/ EmitReturn
  \/ ErrorfReturnOp
  \/ ErrorfReturnKeyword
  \/ Close

\* C11: scanning never runs forever.  Stated so that a finite run refutes
\* it: a driver that has not closed the channel and is not waiting in a send
\* for the caller can take a step that changes the state; a driver that
\* cannot is running in place and never reaches a terminal state, however
\* often the caller calls Tokenize.
C11_ScanEnds ==
  pc \notin {"done", "send"} => ENABLED <<DriverNext>>_vars

\* ---- C12
\* The context each call site of errorf gives, as the diagnostic shows it;
\* the spelling of the second is the source's.
DiagnosticContext(s) ==
  IF s = "errorfOp"
  THEN <<"u", "n", "s", "u", "p", "p", "o", "r", "t", "e", "d", " ", "o", "p">>
  ELSE <<"k", "e", "y", "w", "o", "r", "d", " ", "d", "o", "e", "s", "n", "'",
         "t", " ", "e", "x", "s", "i", "t">>

\* "ERROR: <nm>: <context>: <text>" and nothing more.
Diagnostic(nm, context, text) ==
  <<"E", "R", "R", "O", "R", ":", " ">> \o nm \o <<":", " ">> \o context
  \o <<":", " ">> \o text

\* C12: every Error token errorf publishes, at the unsupported-operator sites
\* and at the unknown-keyword site, has the literal
\* "ERROR: <name>: <context>: <pending span>", with nothing after the span.
C12_DiagnosticLiteral ==
  \A k \in 1..Len(published) :
    published[k].site \in {"errorfOp", "errorfKeyword"} =>
      /\ published[k].Type = "Error"
      /\ published[k].Literal =
           Diagnostic(name, DiagnosticContext(published[k].site),
                      SpanOf(published[k]))

\* The half of C12 that the unknown-keyword site meets.
C12_KeywordSiteOnly ==
  \A k \in 1..Len(published) :
    published[k].site = "errorfKeyword" =>
      /\ published[k].Type = "Error"
      /\ published[k].Literal =
           Diagnostic(name, DiagnosticContext(published[k].site),
                      SpanOf(published[k]))

\* ---- C13
\* C13: in every reachable state, whatever steps of next, peek, ignore,
\* backup, emit and errorf led to it, 0 <= start <= pos <= len(input); in
\* particular a next() at the end of the input leaves pos at len(input).
C13_CursorBounds ==
  /\ 0 <= start
  /\ start <= pos
  /\ pos <= Len(input)

\* A quoted state has consumed the whole input with a span pending, and its
\* next() there has nothing to decode.
C13_Witness ==
  /\ state \in {"expectString", "expectLiteral"}
  /\ pc = "loop"
  /\ start < pos
  /\ pos = Len(input)
  /\ PosAfterNext = pos

\* ---- C14
\* The code points dispatch has a case for.
Dispatched(b) ==
  \/ b \in {"'", Backquote, " ", "\n", "*", ",", "=", "+", "-", "/", "!", ">", "<"}
  \/ b \in {"0", "1", "2", "3", "4", "5", "6", "7", "8", "9"}
  \/ b \in LetterSet

\* The driver has stopped, or is about to close the channel, and neither an
\* EOF token of dispatch nor the diagnostic of an unknown word was its last
\* send: it stopped on a code point dispatch has no case for.
SilentlyStopped ==
  /\ state = "nil" \/ pc = "done"
  /\ site # "errorfKeyword"
  /\ ~ /\ published # <<>>
       /\ published[Len(published)].site = "emit"
       /\ published[Len(published)].Type = "EOF"

\* C14: when dispatch decodes a code point it has no case for, the scan ends
\* with no token and no error.  The step that follows the decoding sends
\* nothing and ends the scan; from then on nothing is ever sent, every token
\* sent lies before the code point, and what the caller gets beyond the
\* tokens sent before carries no diagnostic.
C14_SilentStop ==
  [][ /\ (pc = "switch" /\ ~Dispatched(r)) =>
           /\ published' = published
           /\ sent' = sent
           /\ offer' = NoToken
           /\ pc' = "switch" \/ (pc' = "loop" /\ state' = "nil")
      /\ SilentlyStopped =>
           /\ SilentlyStopped'
           /\ published' = published
           /\ sent' = sent
           /\ ~Dispatched(ByteAt(start))
           /\ start < pos
           /\ \A k \in 1..Len(published) : published[k].to <= start
           /\ \A k \in 1..Len(returns') :
                k > Len(published) => returns'[k].tok.Literal = <<>>
    ]_vars

\* The scan stopped silently after at least one token, with input left over,
\* and the caller has pulled on the closed channel.
C14_Witness ==
  /\ SilentlyStopped
  /\ pc = "done"
  /\ published # <<>>
  /\ pos < Len(input)
  /\ Len(returns) > Len(published)

\* ---- C15
\* The caller has got its first non-nil error, the Error token of an
\* unsupported operator, and has not called Tokenize again (the loop of
\* getAllTokens breaks there).
StoppedAtOpError ==
  /\ cpc = "idle"
  /\ returns # <<>>
  /\ returns[Len(returns)].err # "nil"
  /\ \A k \in 1..(Len(returns) - 1) : returns[k].err = "nil"
  /\ Len(published) >= Len(returns)
  /\ published[Len(returns)].site = "errorfOp"
  /\ returns[Len(returns)].tok = TokenOf(published[Len(returns)])

\* C15: a caller that stops calling Tokenize after the first non-nil error
\* leaves the driver, for an unsupported operator form, blocked in the send of
\* the Op token that follows the Error token.  As long as the caller does not
\* call, the driver gets from the return of errorf to that send and no
\* further: the channel stays open, the driver is never done, and in the send
\* the only step left to the program is a new call of Tokenize.
C15_BlockedOnOp ==
  [][ StoppedAtOpError =>
        /\ ~closed
        /\ \/ pc = "sent" /\ site = "errorfOp"
           \/ /\ pc = "send"
              /\ site = "emit"
              /\ Len(published) = Len(returns) + 1
              /\ sent = Len(returns)
              /\ offer = Token("Op", SpanOf(published[Len(returns)]))
              /\ cpc' = "recv"
        /\ cpc' = "idle" => StoppedAtOpError' /\ pc' = "send" /\ ~closed'
    ]_vars

\* The caller stopped at the Error of an unsupported operator, the driver is
\* in the send of the Op, and input is left that will never be scanned.
C15_Witness ==
  /\ StoppedAtOpError
  /\ pc = "send"
  /\ offer.Type = "Op"
  /\ pos < Len(input)
  /\ ~ENABLED <<DriverNext \/ ChanSend \/ ChanRecv>>_vars

HasSpan(e) == e.site \in {"emit", "literal"}

\* C17: every token of a kind other than Error has a contiguous piece
\* input[from:to] of the input as literal; the spans of successive such
\* tokens do not overlap and come in increasing order; and every byte before
\* the point the scan has got to (the start of the pending span, which is
\* where a stopped scan stopped) that lies in no token's span is a space or a
\* newline.
C17_SpansTileInput ==
  /\ \A k \in 1..Len(published) :
       published[k].Type # "Error" =>
         /\ 0 <= published[k].from
         /\ published[k].from <= published[k].to
         /\ published[k].to <= Len(input)
         /\ published[k].Literal = SpanOf(published[k])
  /\ \A j, k \in 1..Len(published) :
       (j < k /\ published[j].Type # "Error" /\ published[k].Type # "Error") =>
         published[j].to <= published[k].from
  /\ \A p \in 0..(start - 1) :
       \/ ByteAt(p) \in {" ", "\n"}
       \/ \E k \in 1..Len(published) :
            /\ HasSpan(published[k])
            /\ published[k].from <= p
            /\ p < published[k].to

\* The scan has stopped after two tokens or more with a blank between them.
C17_Witness ==
  /\ pc = "done"
  /\ \E j, k \in 1..Len(published) :
       /\ j < k
       /\ published[j].Type # "Error"
       /\ published[k].Type # "Error"
       /\ published[j].from < published[j].to
       /\ published[j].to < published[k].from
       /\ published[k].from < published[k].to
  /\ \E p \in 0..(start - 1) : ByteAt(p) = " "

\* ---- C18
\* The first byte of a lexeme of the state a token of history entry e comes
\* from: the quote of a string, the backquote of a quoted identifier, a
\* digit of a number, a letter of a word.
LexemeBegins(e) ==
  LET b == IF e.from < Len(input) THEN input[e.from + 1] ELSE "none"
  IN  /\ e.site = "literal" => b = Backquote
      /\ (e.site = "emit" /\ e.Type = "String") => b = "'"
      /\ (e.site = "emit" /\ e.Type = "Number") => IsDigit(b)
      /\ (e.site = "emit" /\ IsKeyword(ToUpper(e.Literal))) => IsLetter(b)
      /\ e.site = "errorfKeyword" => IsLetter(b)

\* C18: whenever dispatch (expectAny) is entered start = pos, so the switch
\* runs with exactly one code point pending, the one at start; backup()
\* before the number and keyword states gives back exactly that code point;
\* every token's span begins at the start dispatch was entered with, which is
\* the first byte of its lexeme; and start moves only up to pos.
C18_NoPendingSpan ==
  [][ /\ (pc = "loop" /\ state = "expectAny") => start = pos
      /\ pc = "switch" =>
           /\ r = DecodeRuneInString(input, start)[1]
           /\ pos = start + DecodeRuneInString(input, start)[2]
           /\ pos > start
      /\ (pc = "switch" /\ state' \in {"expectNumber", "expectKeyword"}
            /\ pc' = "loop") =>
           /\ pos' = pos - DecodeRuneInString(input, pos')[2]
           /\ pos' = start'
           /\ start' = start
      /\ (pc = "loop" /\ state \in {"expectNumber", "expectKeyword"}) =>
           pos = start
      /\ start' # start => start' = pos /\ pos' = pos
      /\ published' # published =>
           /\ Len(published') = Len(published) + 1
           /\ published'[Len(published')].from = start
           /\ start' = start
      /\ \A k \in 1..Len(published) : LexemeBegins(published[k])
    ]_vars

\* Dispatch is entered again after two tokens or more, the last of them a
\* number or a word, which a backup() came before.
C18_Witness ==
  /\ pc = "loop"
  /\ state = "expectAny"
  /\ start = pos
  /\ Len(published) >= 2
  /\ published[Len(published)].site = "emit"
  /\ \/ published[Len(published)].Type = "Number"
     \/ IsKeyword(ToUpper(published[Len(published)].Literal))
  /\ published[Len(published)].to = start

\* ---- C19
\* C19: once the driver has ended and closed the channel, every further call
\* of Tokenize returns, without blocking, an Error token with the empty
\* literal and a non-nil error.  Every return beyond the tokens received
\* from the driver is that pair; such returns happen only on the closed
\* channel of a driver that is done; and a receive on the closed channel and
\* the return that follows it are always able to go on.
C19_ClosedChannelPulls ==
  /\ \A k \in 1..Len(returns) :
       k > Len(received) =>
         /\ returns[k].tok = [Type |-> "Error", Literal |-> <<>>]
         /\ returns[k].err # "nil"
  /\ closedPulls > 0 => closed
  /\ closed =>
       /\ pc = "done"
       /\ buf = <<>>
       /\ sent = Len(published)
       /\ Len(received) = sent
       /\ cpc = "recv" => ENABLED ChanRecv
       /\ cpc = "got" => ENABLED TokenizeReturn
       /\ (cpc = "got" /\ Len(returns) = Len(received)) =>
            t = [Type |-> "Error", Literal |-> <<>>]
  /\ Len(returns) <= Len(received) + closedPulls

\* The caller has pulled twice more after a clean EOF.
C19_Witness ==
  /\ closed
  /\ received # <<>>
  /\ received[Len(received)] = [Type |-> "EOF", Literal |-> <<>>]
  /\ published[Len(published)].site = "emit"
  /\ Len(returns) = Len(received) + 2
  /\ returns[Len(returns)].err = "Error"

\* The caller has pulled at a silent stop, with nothing received before.
C19_WitnessSilentStop ==
  /\ closed
  /\ SilentlyStopped
  /\ received = <<>>
  /\ Len(returns) >= 1

====
